---- MODULE Spec2Model ----
(***************************************************************************)
(* Model of the HTTP message-signature verifier of httpsig (verify.go).    *)
(*                                                                         *)
(* Strings are sequences of tokens.  The delimiters the code looks for     *)
(* (",", " ", "=", ":") and the ones the parameter syntax uses (";", "(",  *)
(* ")") are tokens of their own; every other token stands for a run of     *)
(* characters that holds no delimiter (a name, a key id, a base64 group).   *)
(* The empty sequence is Go's empty string.                                *)
(***************************************************************************)
EXTENDS Integers, Sequences, FiniteSets, TLC

\* Bounds of the model.
MaxEntries == 2
MaxTime == 2

Calls == {"c1", "c2"}

(***************************************************************************)
(* Library functions used by Verify.                                       *)
(***************************************************************************)

\* 1-based position of the first occurrence of sep in s, 0 when there is none.
Index(s, sep) ==
    LET hits == {i \in 1..(Len(s) + 1 - Len(sep)) :
                    SubSeq(s, i, i + Len(sep) - 1) = sep}
    IN IF hits = {} THEN 0 ELSE CHOOSE i \in hits : \A j \in hits : i <= j

\* strings.SplitN(s, sep, n) for n >= 1: at most n parts, the last one the
\* unsplit remainder.
RECURSIVE SplitN(_, _, _)
SplitN(s, sep, n) ==
    LET i == Index(s, sep)
    IN IF n = 1 \/ i = 0
       THEN <<s>>
       ELSE <<SubSeq(s, 1, i - 1)>>
            \o SplitN(SubSeq(s, i + Len(sep), Len(s)), sep, n - 1)

\* strings.Split(s, sep): every part; a string without sep is one part.
RECURSIVE Split(_, _)
Split(s, sep) ==
    LET i == Index(s, sep)
    IN IF i = 0
       THEN <<s>>
       ELSE <<SubSeq(s, 1, i - 1)>> \o Split(SubSeq(s, i + Len(sep), Len(s)), sep)

\* strings.Trim(s, cutset): s without its leading and trailing cutset tokens.
Trim(s, cutset) ==
    LET keep == {i \in 1..Len(s) : s[i] \notin cutset}
    IN IF keep = {} THEN <<>>
       ELSE LET lo == CHOOSE i \in keep : \A j \in keep : i <= j
                hi == CHOOSE i \in keep : \A j \in keep : j <= i
            IN SubSeq(s, lo, hi)

\* strings.Join, used to lay out the header values of the messages.
RECURSIVE Join(_, _)
Join(parts, sep) ==
    IF parts = <<>> THEN <<>>
    ELSE IF Len(parts) = 1 THEN parts[1]
    ELSE parts[1] \o sep \o Join(Tail(parts), sep)

(***************************************************************************)
(* Error values (verify.go:151-165).                                       *)
(***************************************************************************)
nil == "nil"
notSignedError == "signature headers not found"
malformedSignatureError == "unable to parse signature headers"
unknownKeyError == "unknown key id"
algMismatchError == "algorithm mismatch for key id"
signatureExpiredError == "signature expired"
invalidSignatureError == "invalid signature"

\* The error the canonicalizer reports; it is a value of its own, none of the
\* six sentinels above.
canonicalizationError == "canonicalization error"

IsNotSignedError(err) == err = notSignedError
IsMalformedSignatureError(err) == err = malformedSignatureError
IsUnknownKeyError(err) == err = unknownKeyError
IsAlgMismatchError(err) == err = algMismatchError
IsSignatureExpiredError(err) == err = signatureExpiredError
IsInvalidSignatureError(err) == err = invalidSignatureError

(***************************************************************************)
(* Signature parameters and their parser.                                  *)
(*                                                                         *)
(* A parameter blob is  ( item item ... ) ;name=value ;name=value ...      *)
(* An absent optional value is the empty sequence: alg is "" and expires   *)
(* is a nil pointer.                                                       *)
(***************************************************************************)
DigitVal == [t \in {"0", "1", "2", "3"} |->
                CASE t = "0" -> 0 [] t = "1" -> 1 [] t = "2" -> 2 [] t = "3" -> 3]

DigitStr == [n \in 0..3 |->
                CASE n = 0 -> "0" [] n = 1 -> "1" [] n = 2 -> "2" [] n = 3 -> "3"]

signatureParams(items, keyID, alg, expires) ==
    [items |-> items, keyID |-> keyID, alg |-> alg, expires |-> expires]

\* The value of the first field called name in a list of ;name=value fields,
\* <<>> when there is none.
FieldValue(fields, name) ==
    LET at == {k \in 0..((Len(fields) \div 4) - 1) : fields[4 * k + 2] = name}
    IN IF at = {} THEN <<>>
       ELSE <<fields[4 * (CHOOSE k \in at : \A j \in at : k <= j) + 4]>>

parseSignatureInput(blob) ==
    LET close == Index(blob, <<")">>)
        hasList == Len(blob) >= 2 /\ blob[1] = "(" /\ close > 0
        list == IF hasList THEN SubSeq(blob, 2, close - 1) ELSE <<>>
        items == SelectSeq(list, LAMBDA t : t # " ")
        fields == IF hasList THEN SubSeq(blob, close + 1, Len(blob)) ELSE <<>>
        shaped == /\ Len(fields) % 4 = 0
                  /\ \A k \in 0..((Len(fields) \div 4) - 1) :
                        /\ fields[4 * k + 1] = ";"
                        /\ fields[4 * k + 3] = "="
        keyid == IF shaped THEN FieldValue(fields, "keyid") ELSE <<>>
        alg == IF shaped THEN FieldValue(fields, "alg") ELSE <<>>
        exp == IF shaped THEN FieldValue(fields, "expires") ELSE <<>>
        good == /\ hasList /\ items # <<>> /\ shaped
                /\ keyid # <<>>
                /\ exp # <<>> => exp[1] \in DOMAIN DigitVal
    IN IF good
       THEN [err |-> nil,
             params |-> signatureParams(items, keyid[1],
                            IF alg = <<>> THEN "" ELSE alg[1],
                            IF exp = <<>> THEN <<>> ELSE <<DigitVal[exp[1]]>>)]
       ELSE [err |-> malformedSignatureError, params |-> <<>>]

(***************************************************************************)
(* Canonicalizer.  Each function returns the bytes it appends and its      *)
(* error.                                                                  *)
(***************************************************************************)
canonicalizeHeader(name, hdr) ==
    IF name \notin DOMAIN hdr \/ hdr[name] = <<>>
    THEN [err |-> canonicalizationError, out |-> <<>>]
    ELSE [err |-> nil, out |-> <<name, ":", " ">> \o hdr[name] \o <<"\n">>]

ToLower(method) ==
    CASE method = "GET" -> "get" [] method = "POST" -> "post" [] OTHER -> method

canonicalizeRequestTarget(method, url) ==
    IF url = <<>>
    THEN [err |-> canonicalizationError, out |-> <<>>]
    ELSE [err |-> nil,
          out |-> <<"@request-target", ":", " ", ToLower(method), " ">> \o url \o <<"\n">>]

RECURSIVE ItemList(_)
ItemList(items) ==
    IF items = <<>> THEN <<>>
    ELSE IF Len(items) = 1 THEN <<items[1]>>
    ELSE <<items[1], " ">> \o ItemList(Tail(items))

canonicalizeSignatureParams(p) ==
    <<"@signature-params", ":", " ", "(">> \o ItemList(p.items) \o <<")">>
    \o <<";", "keyid", "=", p.keyID>>
    \o (IF p.alg = "" THEN <<>> ELSE <<";", "alg", "=", p.alg>>)
    \o (IF p.expires = <<>> THEN <<>> ELSE <<";", "expires", "=", DigitStr[p.expires[1]]>>)
    \o <<"\n">>

(***************************************************************************)
(* Algorithm verifiers (verify.go:167-225).  A verHolder is the expected   *)
(* algorithm and what its factory closes over; an instance is the hash or  *)
(* MAC state h, which is determined by the bytes written to it so far.     *)
(***************************************************************************)
verifyRsaPssSha512(pk) == [alg |-> "rsa-pss-sha512", key |-> pk]
verifyEccP256(pk) == [alg |-> "ecdsa-p256-sha256", key |-> pk]
verifyHmacSha256(secret) == [alg |-> "hmac-sha256", key |-> secret]

\* h.Sum(nil): the digest or MAC of the bytes written, under the algorithm
\* and key of the holder.  Distinct inputs give distinct values.
Sum(holder, written) == <<holder.alg, holder.key>> \o written

\* A signature made with the key that matches the holder's key: the MAC for
\* HMAC, the signature over the digest for RSA-PSS and ECDSA.
Sign(holder, bytes) == Sum(holder, bytes)

\* verImpl.verify(s) of an instance whose h has received written.
verImplVerify(holder, written, s) ==
    IF s = Sum(holder, written) THEN nil ELSE invalidSignatureError

\* verifier.keys, as the options WithHmacSha256 and WithRsaPssSha512 build it.
Registry ==
    [k \in {"key1", "key2"} |->
        IF k = "key1" THEN verifyHmacSha256("secret1")
                      ELSE verifyRsaPssSha512("pub2")]

(***************************************************************************)
(* encoding/base64.  A base64 group is one token; Base64Groups gives the   *)
(* bytes each valid group decodes to, and is filled in below with the      *)
(* signatures the messages carry.  Any other token is illegal input.       *)
(***************************************************************************)
\* A decoder that drops the illegal input instead of failing.
DecodeStringLenient(groups, s) ==
    LET RECURSIVE Bytes(_)
        Bytes(t) == IF t = <<>> THEN <<>>
                    ELSE (IF Head(t) \in DOMAIN groups THEN groups[Head(t)] ELSE <<>>)
                         \o Bytes(Tail(t))
    IN [err |-> nil, out |-> Bytes(s)]

DecodeString(groups, s) ==
    LET RECURSIVE Bytes(_)
        Bytes(t) == IF t = <<>> THEN <<>> ELSE groups[Head(t)] \o Bytes(Tail(t))
    IN IF \A i \in 1..Len(s) : s[i] \in DOMAIN groups
       THEN [err |-> nil, out |-> Bytes(s)]
       ELSE [err |-> "illegal base64 data", out |-> <<>>]

(***************************************************************************)
(* The steps of Verify (verify.go:36-147) as functions of the call's       *)
(* locals.                                                                 *)
(***************************************************************************)

\* msg.Header.Get(name): the header's value, "" when it is absent.
HeaderGet(m, name) == IF name \in DOMAIN m.Header THEN m.Header[name] ELSE <<>>

\* HeadersMissing with NotSigned kept for the case of both headers absent.
HeadersBothMissing(sigHdr, paramHdr) == sigHdr = <<>> /\ paramHdr = <<>>

\* Lines 38-45: either header absent or empty.
HeadersMissing(sigHdr, paramHdr) == sigHdr = <<>> \/ paramHdr = <<>>

\* LengthMismatch that only sees a Signature list that is the shorter one.
LengthShorter(sp, pp) == Len(sp) < Len(pp)

\* Line 50.
LengthMismatch(sp, pp) == Len(sp) # Len(pp)

\* SelectKey without the break of line 72: the last registered entry wins.
RECURSIVE SelectKeyLast(_, _, _)
SelectKeyLast(paramParts, keys, from) ==
    IF from > Len(paramParts)
    THEN [err |-> unknownKeyError, sigID |-> <<>>, params |-> <<>>]
    ELSE
      LET pParts == SplitN(paramParts[from], <<"=">>, 2)
      IN IF Len(pParts) # 2
         THEN [err |-> malformedSignatureError, sigID |-> <<>>, params |-> <<>>]
         ELSE
           LET candidate == parseSignatureInput(pParts[2])
               later == SelectKeyLast(paramParts, keys, from + 1)
           IN IF candidate.err # nil
              THEN [err |-> malformedSignatureError, sigID |-> <<>>, params |-> <<>>]
              ELSE IF candidate.params.keyID \in DOMAIN keys /\ later.err = unknownKeyError
              THEN [err |-> nil, sigID |-> pParts[1], params |-> <<candidate.params>>]
              ELSE later

\* Lines 56-78: the loop over paramParts.  from is the index of the entry the
\* loop is at.
RECURSIVE SelectKey(_, _, _)
SelectKey(paramParts, keys, from) ==
    IF from > Len(paramParts)
    THEN [err |-> unknownKeyError, sigID |-> <<>>, params |-> <<>>]
    ELSE
      LET pParts == SplitN(paramParts[from], <<"=">>, 2)
      IN IF Len(pParts) # 2
         THEN [err |-> malformedSignatureError, sigID |-> <<>>, params |-> <<>>]
         ELSE
           LET candidate == parseSignatureInput(pParts[2])
           IN IF candidate.err # nil
              THEN [err |-> malformedSignatureError, sigID |-> <<>>, params |-> <<>>]
              ELSE IF candidate.params.keyID \in DOMAIN keys
              THEN [err |-> nil, sigID |-> pParts[1], params |-> <<candidate.params>>]
              ELSE SelectKey(paramParts, keys, from + 1)

\* FindSignature that passes over an entry without "=" instead of failing.
RECURSIVE FindSignatureSkipping(_, _, _)
FindSignatureSkipping(sigParts, id, from) ==
    IF from > Len(sigParts)
    THEN [err |-> nil, signature |-> <<>>]
    ELSE
      LET sParts == SplitN(sigParts[from], <<"=">>, 2)
      IN IF Len(sParts) = 2 /\ sParts[1] = id
         THEN [err |-> nil, signature |-> Trim(sParts[2], {":"})]
         ELSE FindSignatureSkipping(sigParts, id, from + 1)

\* Lines 80-92: the loop over sigParts; signature stays "" when no entry has
\* the id.
RECURSIVE FindSignature(_, _, _)
FindSignature(sigParts, id, from) ==
    IF from > Len(sigParts)
    THEN [err |-> nil, signature |-> <<>>]
    ELSE
      LET sParts == SplitN(sigParts[from], <<"=">>, 2)
      IN IF Len(sParts) # 2
         THEN [err |-> malformedSignatureError, signature |-> <<>>]
         ELSE IF sParts[1] = id
         THEN [err |-> nil, signature |-> Trim(sParts[2], {":"})]
         ELSE FindSignature(sigParts, id, from + 1)

\* AlgMismatch without the test that the message declares an alg.
AlgMismatchUndeclared(ver, p) == ver.alg # "" /\ ver.alg # p.alg

\* Line 99.
AlgMismatch(ver, p) == ver.alg # "" /\ p.alg # "" /\ ver.alg # p.alg

\* Lines 117-131: the loop over params.items, from the item at index from
\* with buf the buffer so far.
RECURSIVE Canonicalize(_, _, _, _)
Canonicalize(items, m, from, buf) ==
    IF from > Len(items)
    THEN [err |-> nil, out |-> buf]
    ELSE
      LET h == items[from]
          line == IF h = "@request-target"
                  THEN canonicalizeRequestTarget(m.Method, m.URL)
                  ELSE canonicalizeHeader(h, m.Header)
      IN IF line.err # nil
         THEN [err |-> line.err, out |-> buf]
         ELSE Canonicalize(items, m, from + 1, buf \o line.out)

\* Line 142.
Expired(p, now) == p.expires # <<>> /\ p.expires[1] > now

(***************************************************************************)
(* The messages.  A message is its method, its URL (path and query, ""     *)
(* when it cannot be rendered) and its headers.  The two signature headers *)
(* are lists of at most MaxEntries entries joined by ", ".                 *)
(***************************************************************************)
Assign(id, value) == <<id, "=">> \o value

ExpiresBlob ==
    <<"(", "date", " ", "@request-target", ")", ";", "keyid", "=", "key1",
      ";", "alg", "=", "hmac-sha256", ";", "expires", "=", "1">>
WrongAlgBlob ==
    <<"(", "date", ")", ";", "keyid", "=", "key1", ";", "alg", "=", "rsa-pss-sha512">>
StrangerBlob == <<"(", "date", ")", ";", "keyid", "=", "nokey">>
RsaBlob == <<"(", "date", ")", ";", "keyid", "=", "key2">>
NoListBlob == <<"keyid", "=", "key1">>

ParamEntries ==
    { Assign("sig1", ExpiresBlob), Assign("sig1", WrongAlgBlob), Assign("sig2", StrangerBlob),
      Assign("sig2", RsaBlob), Assign("sig2", NoListBlob), <<"sig2">> }

Message(sigs, inputs, date, url) ==
    [Method |-> "GET", URL |-> url,
     Header |-> [h \in {"Signature", "Signature-Input", "date"} |->
                   CASE h = "Signature" -> Join(sigs, <<",", " ">>)
                     [] h = "Signature-Input" -> Join(inputs, <<",", " ">>)
                     [] h = "date" -> date]]

\* The message the signatures below were made over.
SignedMessage == Message(<<>>, <<>>, <<"Mon">>, <<"/foo">>)

SignedBytes(blob) ==
    LET p == parseSignatureInput(blob).params
    IN Canonicalize(p.items, SignedMessage, 1, <<>>).out
       \o canonicalizeSignatureParams(p)

Base64Groups ==
    [g \in {"MAC1", "PSS2"} |->
        CASE g = "MAC1" -> Sign(Registry["key1"], SignedBytes(ExpiresBlob))
          [] g = "PSS2" -> Sign(Registry["key2"], SignedBytes(RsaBlob))]

SigEntries ==
    { Assign("sig1", <<":", "MAC1", ":">>), Assign("sig2", <<":", "PSS2", ":">>),
      Assign("sig1", <<":", "?", ":">>), Assign("sig1", <<":", ":">>), <<"sig1">> }

Lists(S, max) == UNION {[1..n -> S] : n \in 0..max}

\* The signed message under every pair of lists, and the message with its
\* Date header changed, its Date header removed or its URL unrenderable under
\* the lists of at most one entry.
Messages ==
    { Message(sigs, inputs, <<"Mon">>, <<"/foo">>) :
        sigs \in Lists(SigEntries, MaxEntries),
        inputs \in Lists(ParamEntries, MaxEntries) }
    \cup
    { Message(sigs, inputs, dm[1], dm[2]) :
        sigs \in Lists(SigEntries, 1), inputs \in Lists(ParamEntries, 1),
        dm \in { <<<<"Tue">>, <<"/foo">>>>, <<<<>>, <<"/foo">>>>,
                 <<<<"Mon">>, <<>>>> } }

(***************************************************************************)
(* State.  Every call of Verify has its message, its position and its      *)
(* locals; the registry and the verifier instances the factories have made *)
(* are shared by the calls.                                                *)
(***************************************************************************)
VARIABLES
    keys,       \* verifier.keys
    insts,      \* the verImpl instances made so far, in order of creation
    msg,        \* the argument of each call
    pc,         \* where each call is
    sigParts, paramParts, sigID, params, signature, sig,
    verifier,   \* index in insts of the call's verImpl, 0 before line 109
    b,          \* the call's bytes.Buffer
    err,        \* what verifier.verify returned to the call
    now,        \* what time.Now() returned to the call
    ret         \* what the call returned

locals == <<sigParts, paramParts, sigID, params, signature, sig, verifier, b, err, now>>
vars == <<keys, insts, msg, pc, locals, ret>>

Running == "running"

Fresh ==
    /\ keys = Registry
    /\ insts = <<>>
    /\ sigParts = [c \in Calls |-> <<>>]
    /\ paramParts = [c \in Calls |-> <<>>]
    /\ sigID = [c \in Calls |-> <<>>]
    /\ params = [c \in Calls |-> <<>>]
    /\ signature = [c \in Calls |-> <<>>]
    /\ sig = [c \in Calls |-> <<>>]
    /\ verifier = [c \in Calls |-> 0]
    /\ b = [c \in Calls |-> <<>>]
    /\ err = [c \in Calls |-> nil]
    /\ now = [c \in Calls |-> 0]
    /\ ret = [c \in Calls |-> Running]

\* One call of Verify, on any message; the other call never starts.
Init ==
    /\ Fresh
    /\ \E m \in Messages : msg = [c \in Calls |-> m]
    /\ pc = [c \in Calls |-> IF c = "c1" THEN "Headers" ELSE "idle"]

Return(c, e) ==
    /\ ret' = [ret EXCEPT ![c] = e]
    /\ pc' = [pc EXCEPT ![c] = "done"]

Goto(c, label) ==
    /\ pc' = [pc EXCEPT ![c] = label]
    /\ UNCHANGED ret

\* Lines 37-52.
Headers(c) ==
    /\ pc[c] = "Headers"
    /\ LET sigHdr == HeaderGet(msg[c], "Signature")
           paramHdr == HeaderGet(msg[c], "Signature-Input")
           sp == Split(sigHdr, <<",", " ">>)
           pp == Split(paramHdr, <<",", " ">>)
       IN IF HeadersMissing(sigHdr, paramHdr)
          THEN Return(c, notSignedError) /\ UNCHANGED <<sigParts, paramParts>>
          ELSE /\ sigParts' = [sigParts EXCEPT ![c] = sp]
               /\ paramParts' = [paramParts EXCEPT ![c] = pp]
               /\ IF LengthMismatch(sp, pp)
                  THEN Return(c, malformedSignatureError)
                  ELSE Goto(c, "SelectKey")
    /\ UNCHANGED <<keys, insts, msg, sigID, params, signature, sig, verifier, b, err, now>>

\* Lines 54-78.
SelectKeyStep(c) ==
    /\ pc[c] = "SelectKey"
    /\ LET r == SelectKey(paramParts[c], keys, 1)
       IN /\ sigID' = [sigID EXCEPT ![c] = r.sigID]
          /\ params' = [params EXCEPT ![c] = r.params]
          /\ IF r.err # nil THEN Return(c, r.err) ELSE Goto(c, "FindSignature")
    /\ UNCHANGED <<keys, insts, msg, sigParts, paramParts, signature, sig, verifier, b, err, now>>

\* Lines 80-96.
FindSignatureStep(c) ==
    /\ pc[c] = "FindSignature"
    /\ LET r == FindSignature(sigParts[c], sigID[c], 1)
       IN /\ signature' = [signature EXCEPT ![c] = r.signature]
          /\ IF r.err # nil THEN Return(c, r.err)
             ELSE IF r.signature = <<>> THEN Return(c, malformedSignatureError)
             ELSE Goto(c, "CheckAlg")
    /\ UNCHANGED <<keys, insts, msg, sigParts, paramParts, sigID, params, sig, verifier, b, err, now>>

\* Lines 98-101.
CheckAlg(c) ==
    /\ pc[c] = "CheckAlg"
    /\ IF AlgMismatch(keys[params[c][1].keyID], params[c][1])
       THEN Return(c, algMismatchError)
       ELSE Goto(c, "Decode")
    /\ UNCHANGED <<keys, insts, msg, locals>>

\* Lines 104-107.
Decode(c) ==
    /\ pc[c] = "Decode"
    /\ LET r == DecodeString(Base64Groups, signature[c])
       IN /\ sig' = [sig EXCEPT ![c] = r.out]
          /\ IF r.err # nil THEN Return(c, malformedSignatureError)
             ELSE Goto(c, "NewVerifier")
    /\ UNCHANGED <<keys, insts, msg, sigParts, paramParts, sigID, params, signature, verifier, b, err, now>>

\* A factory whose hash h is made once, outside the closure: every call gets
\* the same instance.
SharedInstance(made) == 1

\* The instance a factory call returns: the closures of verify.go:170-180,
\* 188-202 and 211-222 each make a new hash h, so the instance is a new one.
NewInstance(made) == Len(made) + 1

\* Line 109.
NewVerifier(c) ==
    /\ pc[c] = "NewVerifier"
    /\ LET ver == keys[params[c][1].keyID]
           i == NewInstance(insts)
       IN /\ insts' = IF i > Len(insts)
                      THEN Append(insts, [holder |-> ver, h |-> <<>>, makers |-> {c},
                                          writers |-> {}, verified |-> <<>>])
                      ELSE [insts EXCEPT ![i].makers = @ \cup {c}]
          /\ verifier' = [verifier EXCEPT ![c] = i]
    /\ Goto(c, "Canonicalize")
    /\ UNCHANGED <<keys, msg, sigParts, paramParts, sigID, params, signature, sig, b, err, now>>

\* Lines 113-131.
CanonicalizeStep(c) ==
    /\ pc[c] = "Canonicalize"
    /\ LET r == Canonicalize(params[c][1].items, msg[c], 1, <<>>)
       IN /\ b' = [b EXCEPT ![c] = r.out]
          /\ IF r.err # nil THEN Return(c, r.err) ELSE Goto(c, "WriteBuffer")
    /\ UNCHANGED <<keys, insts, msg, sigParts, paramParts, sigID, params, signature, sig, verifier, err, now>>

\* A Write that feeds the bytes to the accumulator twice.
WriteTwice(made, i, c, p) ==
    [made EXCEPT ![i].h = @ \o p \o p, ![i].writers = @ \cup {c}]

\* w.Write(p) on the instance at index i, by call c.
Write(made, i, c, p) ==
    [made EXCEPT ![i].h = @ \o p, ![i].writers = @ \cup {c}]

\* Line 133.
WriteBuffer(c) ==
    /\ pc[c] = "WriteBuffer"
    /\ insts' = Write(insts, verifier[c], c, b[c])
    /\ Goto(c, "WriteParams")
    /\ UNCHANGED <<keys, msg, locals>>

\* Line 134.
WriteParams(c) ==
    /\ pc[c] = "WriteParams"
    /\ insts' = Write(insts, verifier[c], c, canonicalizeSignatureParams(params[c][1]))
    /\ Goto(c, "Finalize")
    /\ UNCHANGED <<keys, msg, locals>>

\* Lines 136-139.
Finalize(c) ==
    /\ pc[c] = "Finalize"
    /\ LET inst == insts[verifier[c]]
           e == verImplVerify(inst.holder, inst.h, sig[c])
       IN /\ err' = [err EXCEPT ![c] = e]
          /\ insts' = [insts EXCEPT ![verifier[c]].verified =
                          Append(@, [by |-> c, s |-> sig[c], h |-> inst.h, e |-> e])]
          /\ IF e # nil THEN Return(c, invalidSignatureError)
             ELSE Goto(c, "CheckExpires")
    /\ UNCHANGED <<keys, msg, sigParts, paramParts, sigID, params, signature, sig, verifier, b, now>>

\* Lines 141-146.  time.Now() is read here; it may be any time.
CheckExpires(c) ==
    /\ pc[c] = "CheckExpires"
    /\ \E t \in 0..MaxTime :
          /\ now' = [now EXCEPT ![c] = t]
          /\ IF Expired(params[c][1], t)
             THEN Return(c, signatureExpiredError)
             ELSE Return(c, nil)
    /\ UNCHANGED <<keys, insts, msg, sigParts, paramParts, sigID, params, signature, sig, verifier, b, err>>

Next ==
    \E c \in Calls :
        \/ Headers(c)
        \/ SelectKeyStep(c)
        \/ FindSignatureStep(c)
        \/ CheckAlg(c)
        \/ Decode(c)
        \/ NewVerifier(c)
        \/ CanonicalizeStep(c)
        \/ WriteBuffer(c)
        \/ WriteParams(c)
        \/ Finalize(c)
        \/ CheckExpires(c)

Spec == Init /\ [][Next]_vars

(***************************************************************************)
(* Verify run alone, from its first line to its return, at time t.         *)
(***************************************************************************)
Verify(m, registry, t) ==
    LET sigHdr == HeaderGet(m, "Signature")
        paramHdr == HeaderGet(m, "Signature-Input")
        sp == Split(sigHdr, <<",", " ">>)
        pp == Split(paramHdr, <<",", " ">>)
        sel == SelectKey(pp, registry, 1)
        found == FindSignature(sp, sel.sigID, 1)
        p == sel.params[1]
        ver == registry[p.keyID]
        dec == DecodeString(Base64Groups, found.signature)
        can == Canonicalize(p.items, m, 1, <<>>)
        h == can.out \o canonicalizeSignatureParams(p)
    IN IF HeadersMissing(sigHdr, paramHdr) THEN notSignedError
       ELSE IF LengthMismatch(sp, pp) THEN malformedSignatureError
       ELSE IF sel.err # nil THEN sel.err
       ELSE IF found.err # nil THEN found.err
       ELSE IF found.signature = <<>> THEN malformedSignatureError
       ELSE IF AlgMismatch(ver, p) THEN algMismatchError
       ELSE IF dec.err # nil THEN malformedSignatureError
       ELSE IF can.err # nil THEN can.err
       ELSE IF verImplVerify(ver, h, dec.out) # nil THEN invalidSignatureError
       ELSE IF Expired(p, t) THEN signatureExpiredError
       ELSE nil

\* Two calls of Verify at once, on messages that reach the verifier
\* instances or stop short of them.
Concurrent ==
    { Message(<<Assign("sig1", <<":", "MAC1", ":">>)>>, <<Assign("sig1", ExpiresBlob)>>,
              <<"Mon">>, <<"/foo">>),
      Message(<<Assign("sig2", <<":", "PSS2", ":">>)>>, <<Assign("sig2", RsaBlob)>>,
              <<"Mon">>, <<"/foo">>),
      Message(<<Assign("sig1", <<":", "MAC1", ":">>)>>, <<Assign("sig1", ExpiresBlob)>>,
              <<"Tue">>, <<"/foo">>),
      Message(<<Assign("sig2", <<":", "PSS2", ":">>)>>, <<Assign("sig2", RsaBlob)>>,
              <<"Tue">>, <<"/foo">>),
      Message(<<Assign("sig1", <<":", "MAC1", ":">>)>>, <<Assign("sig1", WrongAlgBlob)>>,
              <<"Mon">>, <<"/foo">>),
      Message(<<Assign("sig1", <<":", "MAC1", ":">>)>>, <<Assign("sig1", ExpiresBlob)>>,
              <<>>, <<"/foo">>) }

InitConcurrent ==
    /\ Fresh
    /\ msg \in [Calls -> Concurrent]
    /\ pc = [c \in Calls |-> "Headers"]

SpecConcurrent == InitConcurrent /\ [][Next]_vars

(***************************************************************************)
(* Vocabulary of the properties: what a message holds, said without the    *)
(* code's loops.                                                           *)
(***************************************************************************)
Done(c) == pc[c] = "done"

SignatureHeader(c) == HeaderGet(msg[c], "Signature")
InputHeader(c) == HeaderGet(msg[c], "Signature-Input")

\* The entries of the two lists.
SignatureList(c) == Split(SignatureHeader(c), <<",", " ">>)
InputList(c) == Split(InputHeader(c), <<",", " ">>)

BothPresent(c) == SignatureHeader(c) # <<>> /\ InputHeader(c) # <<>>
EqualLists(c) == BothPresent(c) /\ Len(SignatureList(c)) = Len(InputList(c))

HasSeparator(e) == \E i \in 1..Len(e) : e[i] = "="
FirstSeparator(e) == CHOOSE i \in 1..Len(e) : e[i] = "=" /\ \A j \in 1..(i - 1) : e[j] # "="
EntryId(e) == SubSeq(e, 1, FirstSeparator(e) - 1)
EntryValue(e) == SubSeq(e, FirstSeparator(e) + 1, Len(e))

\* A Signature-Input entry that parses, and one whose key id is registered.
GoodInput(e) == HasSeparator(e) /\ parseSignatureInput(EntryValue(e)).err = nil
EntryParams(e) == parseSignatureInput(EntryValue(e)).params
Registered(e) == GoodInput(e) /\ EntryParams(e).keyID \in DOMAIN Registry

\* The kinds of the taxonomy.
Kinds == {notSignedError, malformedSignatureError, unknownKeyError, algMismatchError,
          invalidSignatureError, signatureExpiredError}

(***************************************************************************)
(* C1.  As stated: both headers absent gives NotSigned, exactly one absent *)
(* gives MalformedSignature.                                               *)
(***************************************************************************)
C1_OneAbsentIsMalformed ==
    \A c \in Calls : Done(c) =>
        /\ (SignatureHeader(c) = <<>> /\ InputHeader(c) = <<>>) => ret[c] = notSignedError
        /\ ((SignatureHeader(c) = <<>>) # (InputHeader(c) = <<>>))
              => ret[c] = malformedSignatureError

\* C1, amended: Verify returns NotSigned exactly when at least one of the two
\* headers is absent or empty, so also when exactly one is absent.
C1_AnyAbsentIsNotSigned ==
    \A c \in Calls : Done(c) =>
        (ret[c] = notSignedError <=> (SignatureHeader(c) = <<>> \/ InputHeader(c) = <<>>))

C1_Witness ==
    \E c \in Calls :
        /\ Done(c) /\ ret[c] = notSignedError
        /\ SignatureHeader(c) = <<>> /\ InputHeader(c) # <<>>

(***************************************************************************)
(* C2.  Both headers present and non-empty, and lists of different         *)
(* lengths: Verify returns MalformedSignature whatever the entries hold.   *)
(***************************************************************************)
C2_LengthMismatchIsMalformed ==
    \A c \in Calls :
        (Done(c) /\ BothPresent(c) /\ Len(SignatureList(c)) # Len(InputList(c)))
            => ret[c] = malformedSignatureError

C2_Witness ==
    \E c \in Calls :
        /\ Done(c) /\ ret[c] = malformedSignatureError
        /\ BothPresent(c) /\ Len(SignatureList(c)) > Len(InputList(c))
        /\ \E i \in 1..Len(InputList(c)) : Registered(InputList(c)[i])

(***************************************************************************)
(* C3.  Key selection is first match in header order.  With both headers   *)
(* present and lists of equal length: the entry Verify selects is the      *)
(* first whose keyid is registered, the entries before it parse and have   *)
(* unregistered keyids, and Verify returns UnknownKey exactly when every   *)
(* Signature-Input entry parses and none has a registered keyid.           *)
(***************************************************************************)
C3_FirstMatch ==
    \A c \in Calls :
        LET list == InputList(c)
            first == {i \in 1..Len(list) :
                        /\ Registered(list[i])
                        /\ \A j \in 1..(i - 1) : GoodInput(list[j]) /\ ~Registered(list[j])}
        IN /\ params[c] # <<>> =>
                \E i \in first : /\ params[c][1] = EntryParams(list[i])
                                 /\ sigID[c] = EntryId(list[i])
           /\ (EqualLists(c) /\ pc[c] \notin {"idle", "Headers", "SelectKey"} /\ first # {})
                => params[c] # <<>>
           /\ (Done(c) /\ EqualLists(c)) =>
                (ret[c] = unknownKeyError
                    <=> \A i \in 1..Len(list) : GoodInput(list[i]) /\ ~Registered(list[i]))
           /\ Done(c) /\ ret[c] = unknownKeyError => EqualLists(c)

C3_Witness ==
    \E c \in Calls :
        /\ Done(c) /\ ret[c] = nil
        /\ Len(InputList(c)) = 2
        /\ GoodInput(InputList(c)[1]) /\ ~Registered(InputList(c)[1])
        /\ params[c] = <<EntryParams(InputList(c)[2])>>

\* What call c has done to the verifier instances.
MadeBy(c) == {i \in 1..Len(insts) : c \in insts[i].makers}
WrittenBy(c) == {i \in 1..Len(insts) : c \in insts[i].writers}
Finalized(c) ==
    {<<i, k>> \in (1..Len(insts)) \X (1..(2 * Cardinality(Calls))) :
        k <= Len(insts[i].verified) /\ insts[i].verified[k].by = c}

\* The call has selected an entry and found a non-empty value for its id
\* (it is past line 96).
ValueFound(c) == params[c] # <<>> /\ signature[c] # <<>>

(***************************************************************************)
(* C4.  Once an entry is selected and its signature value is found, Verify *)
(* returns AlgMismatch if and only if the registry entry's algorithm and   *)
(* the parsed alg are both non-empty and differ; a call that returned      *)
(* AlgMismatch has invoked no factory, written to no accumulator and       *)
(* finalized nothing.                                                      *)
(***************************************************************************)
C4_AlgMismatchBeforeCrypto ==
    \A c \in Calls :
        /\ (ValueFound(c) /\ pc[c] # "CheckAlg") =>
              (ret[c] = algMismatchError
                 <=> LET expected == Registry[params[c][1].keyID].alg
                         declared == params[c][1].alg
                     IN expected # "" /\ declared # "" /\ expected # declared)
        /\ ret[c] = algMismatchError =>
              /\ ValueFound(c)
              /\ verifier[c] = 0 /\ MadeBy(c) = {} /\ WrittenBy(c) = {} /\ Finalized(c) = {}

C4_Witness ==
    \E c \in Calls :
        /\ ret[c] = algMismatchError
        /\ params[c][1].alg = "rsa-pss-sha512"
        /\ Registry[params[c][1].keyID].alg = "hmac-sha256"
        /\ insts = <<>>

(***************************************************************************)
(* C5.  For a message that passes every earlier check, the cryptographic   *)
(* one included: expires set to a time before now gives SignatureExpired,  *)
(* and expires unset gives success.                                        *)
(***************************************************************************)
C5_PastExpiryFails ==
    \A c \in Calls :
        (Done(c) /\ Finalized(c) # {} /\ err[c] = nil) =>
            /\ (params[c][1].expires # <<>> /\ params[c][1].expires[1] < now[c])
                  => ret[c] = signatureExpiredError
            /\ params[c][1].expires = <<>> => ret[c] = nil

(***************************************************************************)
(* C6.  Every call returns success or exactly one of the six kinds, each   *)
(* recognised by exactly one Is...Error predicate; a canonicalization      *)
(* failure is returned as MalformedSignature.                              *)
(***************************************************************************)
Recognisers(e) ==
    {k \in 1..6 :
        CASE k = 1 -> IsNotSignedError(e)
          [] k = 2 -> IsMalformedSignatureError(e)
          [] k = 3 -> IsUnknownKeyError(e)
          [] k = 4 -> IsAlgMismatchError(e)
          [] k = 5 -> IsSignatureExpiredError(e)
          [] k = 6 -> IsInvalidSignatureError(e)}

C6_ClosedTaxonomy ==
    \A c \in Calls : Done(c) =>
        /\ ret[c] = nil \/ (ret[c] \in Kinds /\ Cardinality(Recognisers(ret[c])) = 1)
        /\ (verifier[c] # 0 /\ Canonicalize(params[c][1].items, msg[c], 1, <<>>).err # nil)
              => IsMalformedSignatureError(ret[c])

(***************************************************************************)
(* C7.  Under any interleaving of the calls: every call has a verifier     *)
(* instance and a buffer of its own, no accumulator is written or          *)
(* finalized by a call other than the one that made it, the registry is    *)
(* not modified, and every call returns what Verify returns when it runs   *)
(* alone on the same message at the same time.                             *)
(***************************************************************************)
C7_ConcurrentCallsAreIsolated ==
    /\ keys = Registry
    /\ \A i \in 1..Len(insts) :
          /\ Cardinality(insts[i].makers) = 1
          /\ insts[i].writers \subseteq insts[i].makers
          /\ \A k \in 1..Len(insts[i].verified) : insts[i].verified[k].by \in insts[i].makers
    /\ \A c, d \in Calls : (c # d /\ verifier[c] # 0) => verifier[c] # verifier[d]
    /\ \A c \in Calls :
          /\ pc[c] \in {"WriteBuffer", "WriteParams", "Finalize", "CheckExpires"}
                => b[c] = Canonicalize(params[c][1].items, msg[c], 1, <<>>).out
          /\ Done(c) => ret[c] = Verify(msg[c], Registry, now[c])

C7_Witness ==
    /\ pc["c1"] = "WriteParams" /\ pc["c2"] = "Finalize"
    /\ verifier["c1"] # 0 /\ verifier["c2"] # 0
    /\ params["c1"][1].keyID = params["c2"][1].keyID
    /\ msg["c1"] # msg["c2"]

(***************************************************************************)
(* C8.  As stated: with both headers present and lists of equal length, an *)
(* entry of either list without "=", or a Signature-Input blob that fails  *)
(* to parse, gives MalformedSignature wherever the entry is in its list.   *)
(***************************************************************************)
C8_EveryEntryIsParsed ==
    \A c \in Calls :
        (/\ Done(c) /\ EqualLists(c)
         /\ \/ \E i \in 1..Len(InputList(c)) : ~GoodInput(InputList(c)[i])
            \/ \E i \in 1..Len(SignatureList(c)) : ~HasSeparator(SignatureList(c)[i]))
        => ret[c] = malformedSignatureError

\* C8, amended: the entries are parsed only as far as the two searches go.
\* With both headers present and lists of equal length, Verify returns
\* MalformedSignature if a Signature-Input entry lacks "=" or fails to parse
\* and no entry before it has a registered keyid, or if an entry was selected
\* and a Signature entry lacks "=" and no entry before it has the selected id.
C8_EntriesParsedUntilMatch ==
    \A c \in Calls :
        LET ins == InputList(c)
            sigs == SignatureList(c)
        IN (Done(c) /\ EqualLists(c)) =>
            /\ (\E i \in 1..Len(ins) :
                    /\ ~GoodInput(ins[i])
                    /\ \A j \in 1..(i - 1) : ~Registered(ins[j]))
                  => ret[c] = malformedSignatureError
            /\ (/\ params[c] # <<>>
                /\ \E i \in 1..Len(sigs) :
                    /\ ~HasSeparator(sigs[i])
                    /\ \A j \in 1..(i - 1) :
                          HasSeparator(sigs[j]) => EntryId(sigs[j]) # sigID[c])
                  => ret[c] = malformedSignatureError

C8_Witness ==
    \E c \in Calls :
        /\ Done(c) /\ ret[c] = malformedSignatureError /\ EqualLists(c)
        /\ Len(InputList(c)) = 2
        /\ GoodInput(InputList(c)[1]) /\ ~Registered(InputList(c)[1])
        /\ ~GoodInput(InputList(c)[2])

(***************************************************************************)
(* C9.  As stated: the checks run in the order of steps 1 to 8, so a       *)
(* selected signature value that is not valid base64 gives                 *)
(* MalformedSignature even when the declared alg differs from the          *)
(* registry's, and a cryptographic mismatch gives InvalidSignature even    *)
(* when the expiry check would fail too.                                   *)
(***************************************************************************)
DeclaredAlgDiffers(c) ==
    LET expected == Registry[params[c][1].keyID].alg
        declared == params[c][1].alg
    IN expected # "" /\ declared # "" /\ expected # declared

BadBase64(c) == \E i \in 1..Len(signature[c]) : signature[c][i] \notin DOMAIN Base64Groups

CryptoMismatch(c) == \E f \in Finalized(c) : insts[f[1]].verified[f[2]].e # nil

C9_DecodeBeforeAlgCheck ==
    \A c \in Calls : Done(c) =>
        /\ (ValueFound(c) /\ BadBase64(c)) => ret[c] = malformedSignatureError
        /\ CryptoMismatch(c) => ret[c] = invalidSignatureError

\* C9, amended: the algorithm check (step 5) runs after the signature value
\* is extracted and before it is base64-decoded.  A selected value that is
\* not valid base64 gives AlgMismatch when the declared alg differs from the
\* registry's and MalformedSignature otherwise; a cryptographic mismatch
\* gives InvalidSignature even when the expiry check would fail too.
C9_AlgCheckBeforeDecode ==
    \A c \in Calls :
        /\ Done(c) =>
            /\ (ValueFound(c) /\ BadBase64(c) /\ DeclaredAlgDiffers(c))
                  => ret[c] = algMismatchError
            /\ (ValueFound(c) /\ BadBase64(c) /\ ~DeclaredAlgDiffers(c))
                  => ret[c] = malformedSignatureError
            /\ CryptoMismatch(c) => ret[c] = invalidSignatureError
        /\ verifier[c] # 0 => (ValueFound(c) /\ ~BadBase64(c) /\ ~DeclaredAlgDiffers(c))

C9_Witness ==
    \E c \in Calls :
        /\ Done(c) /\ ret[c] = algMismatchError
        /\ ValueFound(c) /\ BadBase64(c)

(***************************************************************************)
(* C10.  In a call that reaches the cryptographic check the accumulator    *)
(* holds, when finalize is called, the canonical lines of the selected     *)
(* entry's covered components in their order, then the signature-params    *)
(* line, and nothing else; finalize is called once, with the decoded       *)
(* signature; Verify returns success only if finalize did, and             *)
(* InvalidSignature whenever finalize failed.                              *)
(***************************************************************************)
CanonicalBytes(c) ==
    Canonicalize(params[c][1].items, msg[c], 1, <<>>).out
    \o canonicalizeSignatureParams(params[c][1])

C10_FinalizeSeesCanonicalBytes ==
    \A c \in Calls :
        /\ pc[c] = "Finalize" =>
              /\ insts[verifier[c]].h = CanonicalBytes(c)
              /\ Finalized(c) = {}
        /\ pc[c] \in {"CheckExpires", "done"} =>
              /\ Cardinality(Finalized(c)) <= 1
              /\ \A f \in Finalized(c) :
                    LET call == insts[f[1]].verified[f[2]]
                    IN /\ f[1] = verifier[c]
                       /\ call.h = CanonicalBytes(c)
                       /\ insts[f[1]].h = call.h
                       /\ call.s = DecodeString(Base64Groups, signature[c]).out
                       /\ DecodeString(Base64Groups, signature[c]).err = nil
                       /\ call.e # nil => ret[c] = invalidSignatureError
              /\ ret[c] = nil => \E f \in Finalized(c) : insts[f[1]].verified[f[2]].e = nil
              /\ pc[c] = "CheckExpires" => Cardinality(Finalized(c)) = 1

C10_Witness ==
    \E c \in Calls :
        /\ Done(c) /\ ret[c] = nil
        /\ Finalized(c) # {}
        /\ Len(params[c][1].items) = 2
        /\ insts[verifier[c]].h = CanonicalBytes(c)

====
